---------------------------- MODULE Spec2Model ----------------------------
(***************************************************************************)
(* A model of pershing's placer (src/placer/placer.py) and router          *)
(* (src/router/router.py).                                                 *)
(*                                                                         *)
(* Coordinates are <<y, z, x>> triples, a grid shape is <<H, D, W>>.  A    *)
(* boolean numpy grid is modelled by the set of its true voxels, an        *)
(* integer grid by a function over the voxels of its shape.  The functions *)
(* of the program are operators computed the way the code computes them;   *)
(* each specification draws the inputs of one group of functions in its    *)
(* initial states and applies the function in its actions.                 *)
(***************************************************************************)
EXTENDS Integers, Sequences, FiniteSets, TLC

VARIABLES
    op,       \* the function being run: "maze_route", "dumb_route", ...
    pc,       \* position in the run: "call" before, "return"/"raise" after
    args,     \* the arguments of the call (a record)
    ret       \* the value returned (a record), or the state of a running loop

vars == <<op, pc, args, ret>>

\* The value of ret before the function has returned.
NoResult == [none |-> TRUE]

(***************************************************************************)
(* Grids                                                                   *)
(***************************************************************************)

\* The voxels of a grid of the given shape: the valid non-negative indices.
Voxels(shape) ==
    {<<y, z, x>> : y \in 0..(shape[1] - 1), z \in (0..(shape[2] - 1)),
                   x \in (0..(shape[3] - 1))}

Abs(n) == IF n < 0 THEN -n ELSE n

Min(S) == CHOOSE m \in S : \A n \in S : m <= n

Max(S) == CHOOSE m \in S : \A n \in S : m >= n

\* The length of the longest sequence of a sequence of sequences.
MaxSeqLen(qs) == Max({0} \cup {Len(qs[i]) : i \in 1..Len(qs)})

\* scipy.spatial.distance.cityblock on two coordinate triples.
cityblock(u, v) == Abs(u[1] - v[1]) + Abs(u[2] - v[2]) + Abs(u[3] - v[3])

\* Python's tuple order on coordinate triples (lexicographic).
CoordLess(u, v) ==
    \/ u[1] < v[1]
    \/ u[1] = v[1] /\ u[2] < v[2]
    \/ u[1] = v[1] /\ u[2] = v[2] /\ u[3] < v[3]

(***************************************************************************)
(* Router.maze_route                                                       *)
(***************************************************************************)

\* maze_route returns None when b is unreachable.  The lists it returns start
\* with b and are never empty, so the empty sequence stands for None.
None == <<>>

in_bounds(coord, layout_dimensions) ==
    /\ 0 <= coord[1] /\ coord[1] < layout_dimensions[1]
    /\ 0 <= coord[2] /\ coord[2] < layout_dimensions[2]
    /\ 0 <= coord[3] /\ coord[3] < layout_dimensions[3]

violation_directions == <<<<1, 0>>, <<-1, 0>>, <<0, 1>>, <<0, -1>>>>

\* Mutant: the usage matrix is never consulted.
violatingNever(coord, a, b, shape, usage_matrix) == FALSE

\* The closure violating(coord) of maze_route, over its free variables.
violating(coord, a, b, shape, usage_matrix) ==
    IF coord \in {a, b} THEN FALSE
    ELSE \E dy \in {0, -1} : \E i \in 1..4 :
            LET new_coord == <<coord[1] + dy,
                               coord[2] + violation_directions[i][1],
                               coord[3] + violation_directions[i][2]>>
            IN  /\ in_bounds(new_coord, shape)
                /\ new_coord \notin {a, b}
                /\ new_coord \in usage_matrix

\* Direction codes, in the order of the list "movements".
EAST == 1
NORTH == 2
WEST == 3
SOUTH == 4
UP == 5
DOWN == 6

movements == <<<<0, 0, 1>>, <<0, 1, 0>>, <<0, 0, -1>>, <<0, -1, 0>>,
               <<3, 0, 0>>, <<-3, 0, 0>>>>

backtraces == <<WEST, SOUTH, EAST, NORTH, DOWN, UP>>

\* Mutant: a vertical move costs as much as a horizontal one.
costsUniform == <<1, 1, 1, 1, 1, 1>>

costs == <<1, 1, 1, 1, 3, 3>>

violation_cost == 1000

backtrace_movements == <<<<0, 0, -1>>, <<0, -1, 0>>, <<0, 0, 1>>, <<0, 1, 0>>,
                         <<-3, 0, 0>>, <<3, 0, 0>>>>

Move(coord, movement) ==
    <<coord[1] + movement[1], coord[2] + movement[2], coord[3] + movement[3]>>

\* Python's order on the heap entries (cost, location).
EntryLess(e, f) == e[1] < f[1] \/ (e[1] = f[1] /\ CoordLess(e[2], f[2]))

\* heapq.heappop: the least entry.  The heap never holds two entries of one
\* location, so its entries are distinct and the least one is unique.
HeapMin(heap) == CHOOSE e \in heap : \A f \in heap : e = f \/ EntryLess(e, f)

\* The state of the search before the loop: cost_matrix is -1 everywhere but
\* at a, backtrace_matrix is 0, the heap holds (0, a).
MazeStart(a, shape) ==
    [cost_matrix      |-> [v \in Voxels(shape) |-> IF v = a THEN 0 ELSE -1],
     backtrace_matrix |-> [v \in Voxels(shape) |-> 0],
     visited          |-> {},
     min_dist_heap    |-> {<<0, a>>}]

\* The heap push of the loop body: only a location with no entry is pushed.
HeapPush(heap, new_location_cost, new_location) ==
    IF \E e \in heap : e[2] = new_location THEN heap
    ELSE heap \cup {<<new_location_cost, new_location>>}

\* One pass of the inner for loop: candidate movement k from location.
Relax(st, location, k, a, b, shape, usage_matrix) ==
    LET new_location == Move(location, movements[k])
    IN  IF ~in_bounds(new_location, shape) THEN st
        ELSE IF new_location \in st.visited THEN st
        ELSE
          LET new_location_cost ==
                  IF violating(new_location, a, b, shape, usage_matrix)
                  THEN st.cost_matrix[location] + violation_cost
                  ELSE st.cost_matrix[location] + costs[k]
              better == \/ st.cost_matrix[new_location] = -1
                        \/ new_location_cost < st.cost_matrix[new_location]
          IN  [st EXCEPT
                 !.cost_matrix[new_location] =
                     IF better THEN new_location_cost ELSE @,
                 !.backtrace_matrix[new_location] =
                     IF better THEN backtraces[k] ELSE @,
                 !.min_dist_heap =
                     HeapPush(@, new_location_cost, new_location)]

RECURSIVE RelaxAll(_, _, _, _, _, _, _)
\* The inner for loop from movement k on.
RelaxAll(st, location, k, a, b, shape, usage_matrix) ==
    IF k > 6 THEN st
    ELSE RelaxAll(Relax(st, location, k, a, b, shape, usage_matrix),
                  location, k + 1, a, b, shape, usage_matrix)

\* One pass of the while loop: pop the least entry, mark it visited, relax
\* its six neighbours.
MazeStep(st, a, b, shape, usage_matrix) ==
    LET entry == HeapMin(st.min_dist_heap)
        location == entry[2]
        popped == [st EXCEPT !.min_dist_heap = @ \ {entry},
                             !.visited = @ \cup {location}]
    IN  RelaxAll(popped, location, 1, a, b, shape, usage_matrix)

RECURSIVE MazeLoop(_, _, _, _, _)
\* The while loop, run until the heap is empty.
MazeLoop(st, a, b, shape, usage_matrix) ==
    IF st.min_dist_heap = {} THEN st
    ELSE MazeLoop(MazeStep(st, a, b, shape, usage_matrix),
                  a, b, shape, usage_matrix)

\* The index of a direction code in "backtraces".
BacktraceIndex(code) == CHOOSE k \in 1..6 : backtraces[k] = code

RECURSIVE Backtrace(_, _, _)
\* The backtrace loop: follow the arrows from the last voxel of net to a.
Backtrace(net, st, a) ==
    IF net[Len(net)] = a THEN net
    ELSE LET movement ==
                 backtrace_movements[
                     BacktraceIndex(st.backtrace_matrix[net[Len(net)]])]
         IN  Backtrace(Append(net, Move(net[Len(net)], movement)), st, a)

\* The search state when the while loop ends.
MazeSearch(a, b, shape, usage_matrix) ==
    MazeLoop(MazeStart(a, shape), a, b, shape, usage_matrix)

\* maze_route(a, b, placed_layout, usage_matrix); of placed_layout only the
\* shape is read.
maze_route(a, b, shape, usage_matrix) ==
    LET st == MazeSearch(a, b, shape, usage_matrix)
    IN  IF b \in st.visited THEN Backtrace(<<b>>, st, a) ELSE None


(***************************************************************************)
(* The placer: cells, initial_placement, compute_occupied_locations        *)
(***************************************************************************)

\* A cell: its name and its block grid (block ID 0 is empty).
MakeCell(name, shape, empty) ==
    [name   |-> name,
     shape  |-> shape,
     blocks |-> [v \in Voxels(shape) |-> IF v \in empty THEN 0 ELSE 1]]

\* Cell.rot90: (y, z, x) -> (y, x, D-1-z).
rot90(cell) ==
    LET H == cell.shape[1]
        D == cell.shape[2]
        W == cell.shape[3]
    IN  [name   |-> cell.name,
         shape  |-> <<H, W, D>>,
         blocks |-> [v \in Voxels(<<H, W, D>>) |->
                        cell.blocks[<<v[1], D - 1 - v[3], v[2]>>]]]

\* The cell library of the model: an AND cell of 1x2x2 voxels, one of them
\* empty, and a NOT cell of 1x1x3 voxels.
cell_library ==
    [AND |-> MakeCell("AND", <<1, 2, 2>>, {<<0, 1, 1>>}),
     NOT |-> MakeCell("NOT", <<1, 1, 3>>, {})]

\* pregenerate_cells: each cell in its four rotations (indices 0..3 of the
\* code are positions 1..4 here).
pregenerated_cells ==
    [n \in DOMAIN cell_library |->
        <<cell_library[n], rot90(cell_library[n]),
          rot90(rot90(cell_library[n])), rot90(rot90(rot90(cell_library[n])))>>]

spacing == 1

RECURSIVE SumSeq(_)
SumSeq(q) == IF q = <<>> THEN 0 ELSE Head(q) + SumSeq(Tail(q))

\* Mutant: the width of a cell is taken to be its Z extent.
width_estimateDepthOnly(cells) ==
    SumSeq([i \in 1..Len(cells) |-> cells[i].shape[2]]) + Len(cells) * spacing

\* width_estimate: the longest horizontal extent of every cell, plus the
\* spacing for each.
width_estimate(cells) ==
    SumSeq([i \in 1..Len(cells) |->
               Max({cells[i].shape[2], cells[i].shape[3]})])
    + Len(cells) * spacing

\* The X coordinate of the anchor of cell i: the cells before it, each
\* followed by the spacing.
AnchorX(cells, i) ==
    SumSeq([j \in 1..(i - 1) |-> cells[j].shape[3] + spacing])

\* initial_placement(blif, pregenerated_cells, dimensions): the record of
\* what it returns, or of the error it raises.  dimensions is
\* [given |-> FALSE] for None.
initial_placement(blif_cells, dimensions) ==
    LET cells == [i \in 1..Len(blif_cells) |->
                     pregenerated_cells[blif_cells[i].name][1]]
        placements ==
            [i \in 1..Len(cells) |->
                [name      |-> cells[i].name,
                 placement |-> <<0, 0, AnchorX(cells, i)>>,
                 turns     |-> 0,
                 pins      |-> blif_cells[i].pins]]
    IN  IF ~dimensions.given
        THEN IF Len(cells) = 0
             THEN [raised |-> "ValueError"]
             ELSE [raised     |-> "",
                   placements |-> placements,
                   dimensions |-> <<Max({cells[i].shape[1] : i \in 1..Len(cells)}),
                                    width_estimate(cells), width_estimate(cells)>>]
        ELSE IF Len(dimensions.value) # 3
             THEN [raised |-> "ValueError"]
             ELSE [raised     |-> "",
                   placements |-> placements,
                   dimensions |-> dimensions.value]

\* The cell a placement entry names, in its rotation.
PlacedCell(placement) == pregenerated_cells[placement.name][placement.turns + 1]

\* The voxels a placement entry stamps: its anchor plus every voxel of the
\* cell's block grid.
Stamp(placement) ==
    {Move(placement.placement, c) : c \in Voxels(PlacedCell(placement).shape)}

\* Mutant: only the non-empty voxels of a cell are counted.
compute_occupied_locationsNonEmpty(placements, dimensions) ==
    [v \in Voxels(dimensions) |->
        Cardinality({i \in 1..Len(placements) :
            \E c \in Voxels(PlacedCell(placements[i]).shape) :
                /\ PlacedCell(placements[i]).blocks[c] # 0
                /\ Move(placements[i].placement, c) = v})]

\* compute_occupied_locations for placements that fit the grid: every voxel
\* of every cell's block grid adds one at its place.
compute_occupied_locations(placements, dimensions) ==
    [v \in Voxels(dimensions) |->
        Cardinality({i \in 1..Len(placements) : v \in Stamp(placements[i])})]

(***************************************************************************)
(* Router.dumb_route                                                       *)
(***************************************************************************)

\* The list [f(lo), f(lo + 1), ..., f(hi - 1)] of a loop over xrange(lo, hi).
RECURSIVE XRangeRow(_, _, _, _, _)
\* The voxels (ay, az, x) for x in xrange(start, stop), or (ay, z, bx) for z in
\* xrange(start, stop) when alongX is FALSE (fixed is az or bx then).
XRangeRow(start, stop, ay, fixed, alongX) ==
    IF start >= stop THEN <<>>
    ELSE <<IF alongX THEN <<ay, fixed, start>> ELSE <<ay, start, fixed>>>>
         \o XRangeRow(start + 1, stop, ay, fixed, alongX)

\* Mutant: the second pass starts after its first voxel.
dumb_routeCornerOnce(a, b) ==
    XRangeRow(Min({a[3], b[3]}), Max({a[3], b[3]}) + 1, a[1], a[2], TRUE)
    \o XRangeRow(Min({a[2], b[2]}) + 1, Max({a[2], b[2]}) + 1, a[1], b[3], FALSE)

\* dumb_route(a, b): the row of a from min(ax, bx) to max(ax, bx), then the
\* column of bx from min(az, bz) to max(az, bz), all on the Y level of a.
dumb_route(a, b) ==
    XRangeRow(Min({a[3], b[3]}), Max({a[3], b[3]}) + 1, a[1], a[2], TRUE)
    \o XRangeRow(Min({a[2], b[2]}), Max({a[2], b[2]}) + 1, a[1], b[3], FALSE)

(***************************************************************************)
(* Router.net_to_wire_and_violation                                        *)
(***************************************************************************)

\* block_names.index("redstone_wire") and block_names.index("stone"): the
\* block IDs of the conductor and of the substrate.
redstone == 55
stone == 1

\* numpy accepts index i on an axis of length n when -n <= i < n ...
NpValid(coord, shape) ==
    \A k \in 1..3 : -shape[k] <= coord[k] /\ coord[k] < shape[k]

\* ... and a negative index counts from the end of the axis.
NpVoxel(coord, shape) ==
    [k \in 1..3 |-> IF coord[k] < 0 THEN coord[k] + shape[k] ELSE coord[k]]

\* The voxels the inner loops set in "violation" for one path voxel: an
\* assignment that raises IndexError sets nothing.
NeighbourMarks(coord, dimensions) ==
    {NpVoxel(n, dimensions) :
        n \in {m \in {<<coord[1] + vy, coord[2] + violation_directions[i][1],
                        coord[3] + violation_directions[i][2]>> :
                      vy \in {0, -1}, i \in 1..4} : NpValid(m, dimensions)}}

\* The voxel under a path voxel, as numpy indexes it.
Below(coord, dimensions) ==
    NpVoxel(<<coord[1] - 1, coord[2], coord[3]>>, dimensions)

RECURSIVE WireFrom(_, _, _, _)
\* The first loop's writes to "wire", from position i of net on.
WireFrom(wire, net, i, dimensions) ==
    IF i > Len(net) THEN wire
    ELSE WireFrom([[wire EXCEPT ![net[i]] = redstone]
                       EXCEPT ![Below(net[i], dimensions)] = stone],
                  net, i + 1, dimensions)

\* net_to_wire_and_violation(net, dimensions, pins) for a net that is a list
\* of voxels of the grid.
net_to_wire_and_violation(net, dimensions, pins) ==
    LET coords == {net[i] : i \in 1..Len(net)}
        pinset == {pins[i] : i \in 1..Len(pins)}
        marked == UNION {NeighbourMarks(c, dimensions) : c \in coords \ pinset}
        cleared == coords \cup {Below(c, dimensions) : c \in coords}
    IN  [wire      |-> WireFrom([v \in Voxels(dimensions) |-> 0], net, 1,
                                dimensions),
         violation |-> marked \ cleared]

(***************************************************************************)
(* Router.create_net_segments and its minimum_spanning_tree                *)
(***************************************************************************)

\* Position i of a Python list of length n, as a position of a sequence: a
\* negative index counts from the end.
PyIndex(i, n) == IF i < 0 THEN i + n + 1 ELSE i + 1

\* find_set(u): the index of the first set that holds u, -1 when none does.
find_set(sets, u) ==
    IF \E i \in 1..Len(sets) : u \in sets[i]
    THEN Min({i \in 1..Len(sets) : u \in sets[i]}) - 1
    ELSE -1

\* list.pop(i)
ListPop(list, i) ==
    LET at == PyIndex(i, Len(list))
    IN  [k \in 1..(Len(list) - 1) |-> IF k < at THEN list[k] ELSE list[k + 1]]

\* The state of minimum_spanning_tree when its loop starts: one set per entry
\* of net_pins, the keys of "weights" (the ordered pairs of unequal pins) still
\* to be visited, and no edge chosen.
MstStart(net_pins) ==
    [sets |-> [i \in 1..Len(net_pins) |-> {net_pins[i]}],
     todo |-> {<<net_pins[i], net_pins[j]>> : i \in 1..Len(net_pins),
                                              j \in 1..Len(net_pins)}
              \ {<<net_pins[i], net_pins[i]>> : i \in 1..Len(net_pins)},
     A    |-> {}]

\* One pass of the loop over sorted(weights, key=weights.get) for the pair e.
MstVisit(st, e) ==
    LET u_i == find_set(st.sets, e[1])
        v_i == find_set(st.sets, e[2])
        n == Len(st.sets)
    IN  IF u_i # v_i
        THEN [sets |-> ListPop([st.sets EXCEPT ![PyIndex(v_i, n)] =
                                    @ \cup st.sets[PyIndex(u_i, n)]], u_i),
              todo |-> st.todo \ {e},
              A    |-> st.A \cup {e}]
        ELSE [st EXCEPT !.todo = @ \ {e}]

(***************************************************************************)
(* placer.shrink_layout                                                    *)
(***************************************************************************)

\* shrink_layout(layout): layout is a function from the voxels of shape to
\* int8 block ids.  The minima start at the shape and the maxima at 0 and
\* move over the voxels with blockid > 0; np.zeros raises ValueError on a
\* negative dimension.
shrink_layout(layout, shape) ==
    LET positive == {v \in Voxels(shape) : layout[v] > 0}
        min_ == [i \in 1..3 |-> Min({shape[i]} \cup {v[i] : v \in positive})]
        max_ == [i \in 1..3 |-> Max({0} \cup {v[i] : v \in positive})]
        d == [i \in 1..3 |-> max_[i] - min_[i] + 1]
    IN  IF \E i \in 1..3 : d[i] < 0
        THEN [raised |-> "ValueError", shape |-> <<>>, grid |-> <<>>]
        ELSE [raised |-> "",
              shape |-> d,
              grid |-> [c \in Voxels(d) |-> layout[Move(min_, c)]]]

(***************************************************************************)
(* Router.re_route and the functions it calls                              *)
(*                                                                         *)
(* A routing is a sequence of nets (the position stands for the net name), *)
(* a net a sequence of segments, a segment the record [pins, net, wire,    *)
(* violation].  A segment is named by <<net name, index>>.                 *)
(***************************************************************************)

\* The segment initial_routing builds for the pin pair (a, b).
InitialSegment(a, b, layout_dimensions) ==
    LET net == dumb_route(a, b)
        wv == net_to_wire_and_violation(net, layout_dimensions, <<a, b>>)
    IN  [pins |-> <<a, b>>, net |-> net, wire |-> wv.wire,
         violation |-> wv.violation]

\* The names (net_name, i) of the segments of a routing.
SegmentIds(routing) ==
    {id \in (1..Len(routing)) \X (1..MaxSeqLen(routing)) :
        id[2] <= Len(routing[id[1]])}

\* The true voxels of a wire grid taken as booleans.
WireVoxels(wire) == {v \in DOMAIN wire : wire[v] # 0}

\* generate_usage_matrix(placed_layout, routing, exclude): the non-empty
\* voxels of the layout or-ed with the wire of every segment not excluded.
generate_usage_matrix(placed_layout, routing, exclude) ==
    placed_layout
    \cup UNION {WireVoxels(routing[id[1]][id[2]].wire) :
                id \in SegmentIds(routing) \ exclude}

\* Mutant: every voxel of the violation grid is counted.
compute_net_violationsAll(violation, occupieds) == Cardinality(violation)

\* compute_net_violations(violation, occupieds)
compute_net_violations(violation, occupieds) ==
    Cardinality(violation \cap occupieds)

\* The score of a segment in tenths: alpha * violations + beta * (vias - pins)
\* + gamma * (len(net) / lower_length_bound), the division being the integer
\* division of Python 2, alpha = 3, beta = 0.1, gamma = 1, vias = 0, pins = 2.
SegmentScore(segment, usage_matrix) ==
    LET violations == compute_net_violations(segment.violation, usage_matrix)
        lower_length_bound ==
            Max({1, cityblock(segment.pins[1], segment.pins[2])})
    IN  30 * violations + (0 - 2) + 10 * (Len(segment.net) \div lower_length_bound)

\* score_routing: net_scores (in tenths) and net_num_violations, by segment.
score_routing(routing, usage_matrix) ==
    [net_scores |->
        [id \in SegmentIds(routing) |->
            SegmentScore(routing[id[1]][id[2]], usage_matrix)],
     net_num_violations |->
        [id \in SegmentIds(routing) |->
            compute_net_violations(routing[id[1]][id[2]].violation,
                                   usage_matrix)]]

\* normalize_net_scores with norm_margin = 0.1: the normalized score
\* 0.1 + score * (0.8 / (max - min)) of every segment as the fraction
\* <<numerator, denominator>> = <<D + 8*S, 10*D>>, S the score and D the
\* range max - min in tenths.  When D = 0 the scale is the float infinity and
\* the normalized score is +inf or -inf, written <<1, 0>> and <<-1, 0>>.
normalize_net_scores(net_scores) ==
    LET scores == {net_scores[id] : id \in DOMAIN net_scores}
        range == Max(scores) - Min(scores)
    IN  [id \in DOMAIN net_scores |->
            IF range = 0
            THEN <<IF net_scores[id] > 0 THEN 1 ELSE -1, 0>>
            ELSE <<range + 8 * net_scores[id], 10 * range>>]

\* natural_selection draws x in [0, 1) for every segment and rips the segment
\* up when x < norm_score: a segment may be chosen when its score is above 0
\* and is chosen whatever x is when its score is at least 1.
MaySelect(norm_score) == norm_score[1] > 0

MustSelect(norm_score) == norm_score[1] > 0 /\ norm_score[1] >= norm_score[2]

\* The sets of segments natural_selection can return.
natural_selection(normalized_scores) ==
    {rip_up \in SUBSET DOMAIN normalized_scores :
        /\ \A id \in rip_up : MaySelect(normalized_scores[id])
        /\ \A id \in DOMAIN normalized_scores :
              MustSelect(normalized_scores[id]) => id \in rip_up}

\* The orders sorted(rip_up, key = the normalized score, reverse=True) can
\* give: descending scores (all scores of one call have one denominator);
\* equal scores keep the order of rip_up, which lists the nets in the
\* dictionary's order (any) and the segments of a net by index.
SortedRipUps(rip_up, normalized_scores) ==
    {q \in [1..Cardinality(rip_up) -> rip_up] :
        /\ \A i, j \in 1..Cardinality(rip_up) : i # j => q[i] # q[j]
        /\ \A i, j \in 1..Cardinality(rip_up) :
              i < j =>
                /\ normalized_scores[q[i]][1] >= normalized_scores[q[j]][1]
                /\ (normalized_scores[q[i]][1] = normalized_scores[q[j]][1]
                      /\ q[i][1] = q[j][1]) => q[i][2] < q[j][2]}

(***************************************************************************)
(* Reference definitions for the maze router's claims                      *)
(***************************************************************************)

\* The cost maze_route charges for entering voxel v by movement k.
EnterCost(v, k, a, b, shape, usage_matrix) ==
    IF violating(v, a, b, shape, usage_matrix) THEN violation_cost
    ELSE costs[k]

\* One round of relaxation of every voxel over every movement into it
\* (-1: no path known yet).
RelaxRound(dist, a, b, shape, usage_matrix) ==
    [v \in Voxels(shape) |->
        LET cands == {dist[Move(v, backtrace_movements[k])]
                          + EnterCost(v, k, a, b, shape, usage_matrix) :
                      k \in {j \in 1..6 :
                          /\ in_bounds(Move(v, backtrace_movements[j]), shape)
                          /\ dist[Move(v, backtrace_movements[j])] >= 0}}
            all == cands \cup (IF dist[v] >= 0 THEN {dist[v]} ELSE {})
        IN  IF all = {} THEN -1 ELSE Min(all)]

RECURSIVE LeastCosts(_, _, _, _, _)
\* The least cost of a lattice path from a to every voxel, by relaxation to a
\* fixed point (-1: unreachable).
LeastCosts(dist, a, b, shape, usage_matrix) ==
    LET next == RelaxRound(dist, a, b, shape, usage_matrix)
    IN  IF next = dist THEN dist
        ELSE LeastCosts(next, a, b, shape, usage_matrix)

\* The least cost of a lattice path from a to b, -1 when there is none.
LeastCost(a, b, shape, usage_matrix) ==
    LeastCosts([v \in Voxels(shape) |-> IF v = a THEN 0 ELSE -1],
               a, b, shape, usage_matrix)[b]

\* net, listed from b back to a, is a lattice path inside the grid.
IsPath(net, a, b, shape) ==
    /\ Len(net) >= 1
    /\ net[1] = b
    /\ net[Len(net)] = a
    /\ \A i \in 1..Len(net) : in_bounds(net[i], shape)
    /\ \A i \in 1..(Len(net) - 1) :
           \E k \in 1..6 : net[i] = Move(net[i + 1], movements[k])

\* The movement that leads from voxel u to voxel v.
StepOf(u, v) == CHOOSE k \in 1..6 : v = Move(u, movements[k])

RECURSIVE PathCostFrom(_, _, _, _, _, _)
\* The total cost of the steps of net from position i on.
PathCostFrom(net, i, a, b, shape, usage_matrix) ==
    IF i >= Len(net) THEN 0
    ELSE EnterCost(net[i], StepOf(net[i + 1], net[i]), a, b, shape, usage_matrix)
         + PathCostFrom(net, i + 1, a, b, shape, usage_matrix)

PathCost(net, a, b, shape, usage_matrix) ==
    PathCostFrom(net, 1, a, b, shape, usage_matrix)

(***************************************************************************)
(* Inputs                                                                  *)
(***************************************************************************)

\* The greatest number of occupied voxels of a usage matrix drawn as input.
MaxOccupied == 2

\* The subsets of S of at most n elements.
SubsetsUpTo(S, n) == {T \in SUBSET S : Cardinality(T) <= n}

\* The layout shapes the maze router is run on: a plane, and stacks of four
\* Y levels, where the vertical moves (three Y units) exist.
MazeShapes == {<<1, 3, 3>>, <<4, 1, 3>>}

\* A stack of four Y levels with both horizontal axes, drawn with one occupied
\* voxel fewer.
MazeTallShape == <<4, 2, 2>>

\* Scenario S4 of the specification: the layout and usage matrix hold the one
\* voxel (0,2,2) of a 1x5x5 grid.
S4Input ==
    [a |-> <<0, 2, 0>>, b |-> <<0, 2, 4>>, shape |-> <<1, 5, 5>>,
     usage_matrix |-> {<<0, 2, 2>>}]

\* A stack of seven Y levels, three of them reachable from one another, with
\* five occupied voxels; the calls start at (3,1,0).
MazeStackShape == <<7, 2, 4>>

MazeStackInputs ==
    [a : {<<3, 1, 0>>}, b : Voxels(MazeStackShape), shape : {MazeStackShape},
     usage_matrix : {{<<0, 0, 0>>, <<3, 0, 2>>, <<3, 1, 2>>, <<5, 1, 1>>,
                      <<6, 1, 0>>}}]

MazeInputs ==
    {S4Input} \cup MazeStackInputs \cup
    UNION {[a : Voxels(shape), b : Voxels(shape), shape : {shape},
            usage_matrix : SubsetsUpTo(Voxels(shape), MaxOccupied)] :
           shape \in MazeShapes}
    \cup [a : Voxels(MazeTallShape), b : Voxels(MazeTallShape),
          shape : {MazeTallShape},
          usage_matrix : SubsetsUpTo(Voxels(MazeTallShape), MaxOccupied - 1)]

(***************************************************************************)
(* Specification of maze_route                                             *)
(***************************************************************************)

InitMaze ==
    /\ op = "maze_route"
    /\ pc = "call"
    /\ args \in MazeInputs
    /\ ret = NoResult

MazeRouteCall ==
    /\ op = "maze_route"
    /\ pc = "call"
    /\ ret' = [net |-> maze_route(args.a, args.b, args.shape, args.usage_matrix)]
    /\ pc' = "return"
    /\ UNCHANGED <<op, args>>

NextMaze == MazeRouteCall

SpecMaze == InitMaze /\ [][NextMaze]_vars

MazeReturned == op = "maze_route" /\ pc = "return"

\* C1: whenever b is reachable from a, maze_route returns a lattice path from
\* a to b whose total cost (1 per east/west/north/south step, 3 per up/down
\* step, 1000 instead when the entered voxel is violating) is the least cost
\* of any lattice path from a to b.
MazeLeastCost ==
    MazeReturned =>
        LET least == LeastCost(args.a, args.b, args.shape, args.usage_matrix)
        IN  least >= 0 =>
              /\ ret.net # None
              /\ IsPath(ret.net, args.a, args.b, args.shape)
              /\ PathCost(ret.net, args.a, args.b, args.shape,
                          args.usage_matrix) = least

\* No voxel of the layout is violating for the endpoints of the call.
ViolationFree ==
    \A v \in Voxels(args.shape) :
        ~violating(v, args.a, args.b, args.shape, args.usage_matrix)

\* |dz| + |dx| + 3 * ceil(|dy| / 3)
FreeCost(a, b) ==
    Abs(a[2] - b[2]) + Abs(a[3] - b[3]) + 3 * ((Abs(a[1] - b[1]) + 2) \div 3)

\* C2: over a layout where no voxel is violating, the path maze_route returns
\* for a reachable pair costs |dz| + |dx| + 3*ceil(|dy|/3), and maze_route
\* returns None for a pair with no lattice path.
MazeFreeCost ==
    (MazeReturned /\ ViolationFree) =>
        IF LeastCost(args.a, args.b, args.shape, args.usage_matrix) >= 0
        THEN /\ ret.net # None
             /\ IsPath(ret.net, args.a, args.b, args.shape)
             /\ PathCost(ret.net, args.a, args.b, args.shape, args.usage_matrix)
                    = FreeCost(args.a, args.b)
        ELSE ret.net = None

\* C2 witness: a violation-free call whose endpoints lie on different Y levels
\* and different columns, and which returned a path.
MazeFreeClimb ==
    /\ MazeReturned
    /\ ViolationFree
    /\ args.usage_matrix # {}
    /\ Abs(args.a[1] - args.b[1]) = 3
    /\ args.a[3] # args.b[3]
    /\ ret.net # None

\* The voxels of a path.
PathVoxels(net) == {net[i] : i \in 1..Len(net)}

\* C3 as stated: in scenario S4 the returned path has length 5 and does not
\* include (0,2,2).
S4LengthFive ==
    (MazeReturned /\ args = S4Input) =>
        Len(ret.net) = 5 /\ <<0, 2, 2>> \notin PathVoxels(ret.net)

\* C3 amended: in scenario S4 the returned path has length 9 and does not
\* include (0,2,2).
S4LengthNine ==
    (MazeReturned /\ args = S4Input) =>
        Len(ret.net) = 9 /\ <<0, 2, 2>> \notin PathVoxels(ret.net)

\* C3 witness: scenario S4 has been routed.
S4Routed == MazeReturned /\ args = S4Input /\ ret.net # None


(***************************************************************************)
(* Specification of dumb_route and net_to_wire_and_violation               *)
(***************************************************************************)

\* The greatest coordinate of an endpoint given to dumb_route.
MaxCoord == 2

\* The greatest length of a path given to net_to_wire_and_violation.
MaxNetLen == 2

\* The grid shapes net_to_wire_and_violation is run on.
WireShapes == {<<1, 3, 3>>, <<2, 2, 3>>}

\* The sequences over S of length 1..n.
SeqsUpTo(S, n) == UNION {[1..m -> S] : m \in 1..n}

DumbInputs ==
    [a : Voxels(<<MaxCoord + 1, MaxCoord + 1, MaxCoord + 1>>),
     b : Voxels(<<MaxCoord + 1, MaxCoord + 1, MaxCoord + 1>>)]

\* Paths of up to MaxNetLen voxels, and the initial routes of all pin pairs;
\* the pins are a pair of voxels, in one order.
WireInputs ==
    UNION {
        [net : SeqsUpTo(Voxels(shape), MaxNetLen)
                 \cup {dumb_route(p, q) : p \in Voxels(shape), q \in Voxels(shape)},
         dimensions : {shape},
         pins : {pq \in Voxels(shape) \X Voxels(shape) :
                    ~CoordLess(pq[2], pq[1])}] :
        shape \in WireShapes}

InitSegment ==
    /\ ret = NoResult
    /\ pc = "call"
    /\ \/ op = "dumb_route" /\ args \in DumbInputs
       \/ op = "net_to_wire_and_violation" /\ args \in WireInputs

DumbRouteCall ==
    /\ op = "dumb_route"
    /\ pc = "call"
    /\ ret' = [net |-> dumb_route(args.a, args.b)]
    /\ pc' = "return"
    /\ UNCHANGED <<op, args>>

NetToWireAndViolationCall ==
    /\ op = "net_to_wire_and_violation"
    /\ pc = "call"
    /\ ret' = net_to_wire_and_violation(args.net, args.dimensions, args.pins)
    /\ pc' = "return"
    /\ UNCHANGED <<op, args>>

NextSegment == DumbRouteCall \/ NetToWireAndViolationCall

SpecSegment == InitSegment /\ [][NextSegment]_vars

WireReturned == op = "net_to_wire_and_violation" /\ pc = "return"

\* The eight voxels (y+dy, z+dz, x+dx), dy in {0,-1}, (dz,dx) one of the four
\* horizontal directions, around a path voxel.
Neighbourhood(coord) ==
    {<<coord[1] + dy, coord[2] + d[1], coord[3] + d[2]>> :
        dy \in {0, -1}, d \in {<<1, 0>>, <<-1, 0>>, <<0, 1>>, <<0, -1>>}}

\* C6: every voxel set in the violation grid is one of the eight neighbours
\* (y+dy, z+dz, x+dx) of a path voxel that is not a pin; a neighbour outside
\* the grid, negative coordinates included, marks no voxel.
ViolationInNeighbourhood ==
    WireReturned =>
        \A v \in ret.violation :
            \E i \in 1..Len(args.net) :
                /\ \A j \in 1..2 : args.net[i] # args.pins[j]
                /\ v \in Neighbourhood(args.net[i])

DumbReturned == op = "dumb_route" /\ pc = "return"

\* The number of positions of net that hold voxel v.
Occurrences(net, v) == Cardinality({i \in 1..Len(net) : net[i] = v})

\* C7 as stated: for endpoints on one Y level the path of dumb_route has
\* |ax-bx| + |az-bz| + 1 voxels and holds the corner (ay, az, bx) once.
DumbLengthPlusOne ==
    (DumbReturned /\ args.a[1] = args.b[1]) =>
        /\ Len(ret.net) = Abs(args.a[3] - args.b[3]) + Abs(args.a[2] - args.b[2]) + 1
        /\ Occurrences(ret.net, <<args.a[1], args.a[2], args.b[3]>>) = 1

\* C7 amended: for endpoints on one Y level the path of dumb_route has
\* |ax-bx| + |az-bz| + 2 voxels and holds the corner (ay, az, bx) twice, once
\* in each pass.
DumbLengthPlusTwo ==
    (DumbReturned /\ args.a[1] = args.b[1]) =>
        /\ Len(ret.net) = Abs(args.a[3] - args.b[3]) + Abs(args.a[2] - args.b[2]) + 2
        /\ Occurrences(ret.net, <<args.a[1], args.a[2], args.b[3]>>) = 2

\* C7 witness: an L-shaped route between endpoints that differ in z and x.
DumbCornerTurned ==
    /\ DumbReturned
    /\ args.a[1] = args.b[1]
    /\ args.a[2] # args.b[2]
    /\ args.a[3] # args.b[3]
    /\ Len(ret.net) > 2


(***************************************************************************)
(* Specification of create_net_segments                                    *)
(***************************************************************************)

\* The greatest number of pins of a net.
MaxPins == 4

\* The pin coordinates nets are drawn from: the corners of the 10x10 square
\* of scenario S3, a neighbour of one corner and a pin one level up.
MstPoints ==
    {<<0, 0, 0>>, <<0, 0, 10>>, <<0, 10, 0>>, <<0, 10, 10>>, <<0, 0, 1>>,
     <<3, 0, 0>>}

\* The pin lists of 1..MaxPins pins, in one order; two pins of a net may lie
\* at one coordinate (pins of overlapping cells).
PinLists ==
    {l \in SeqsUpTo(MstPoints, MaxPins) :
        \A i \in 1..(Len(l) - 1) : ~CoordLess(l[i + 1], l[i])}

InitMst ==
    /\ op = "create_net_segments"
    /\ pc = "call"
    /\ args \in [pin_list : PinLists]
    /\ ret = NoResult

\* A net of fewer than two pins is left out of net_segments.
MstOmit ==
    /\ op = "create_net_segments"
    /\ pc = "call"
    /\ Len(args.pin_list) < 2
    /\ pc' = "omitted"
    /\ UNCHANGED <<op, args, ret>>

MstEnter ==
    /\ op = "create_net_segments"
    /\ pc = "call"
    /\ Len(args.pin_list) >= 2
    /\ ret' = MstStart(args.pin_list)
    /\ pc' = "loop"
    /\ UNCHANGED <<op, args>>

\* The loop visits the pairs by ascending weight; pairs of equal weight come
\* in the iteration order of the dictionary, which is any order.
MstLoop ==
    /\ op = "create_net_segments"
    /\ pc = "loop"
    /\ \E e \in ret.todo :
          /\ \A f \in ret.todo : cityblock(e[1], e[2]) <= cityblock(f[1], f[2])
          /\ ret' = MstVisit(ret, e)
    /\ UNCHANGED <<op, pc, args>>

MstReturn ==
    /\ op = "create_net_segments"
    /\ pc = "loop"
    /\ ret.todo = {}
    /\ pc' = "return"
    /\ UNCHANGED <<op, args, ret>>

NextMst == MstOmit \/ MstEnter \/ MstLoop \/ MstReturn

SpecMst == InitMst /\ [][NextMst]_vars

MstReturned == op = "create_net_segments" /\ pc = "return"

\* The distinct pins of the net.
PinSet == {args.pin_list[i] : i \in 1..Len(args.pin_list)}

RECURSIVE Reach(_, _)
\* The pins joined to a pin of S by edges of E, taken in either direction.
Reach(S, E) ==
    LET T == S \cup {e[2] : e \in {f \in E : f[1] \in S}}
                \cup {e[1] : e \in {f \in E : f[2] \in S}}
    IN  IF T = S THEN S ELSE Reach(T, E)

\* E joins all pins of P.
Spans(E, P) == \A p \in P : Reach({p}, E) = P

RECURSIVE Weight(_)
\* The total Manhattan weight of the edges of E.
Weight(E) ==
    IF E = {} THEN 0
    ELSE LET e == CHOOSE f \in E : TRUE
         IN  cityblock(e[1], e[2]) + Weight(E \ {e})

\* The weight of a minimum spanning tree of the complete graph over P, by
\* enumeration of the spanning trees.
MstWeight(P) ==
    LET edges == {e \in P \X P : CoordLess(e[1], e[2])}
        trees == {T \in SUBSET edges :
                     Cardinality(T) = Cardinality(P) - 1 /\ Spans(T, P)}
    IN  Min({Weight(T) : T \in trees})

\* The returned edges are a spanning tree of minimum weight.
IsMinimumSpanningTree(A, P) ==
    /\ Cardinality(A) = Cardinality(P) - 1
    /\ Spans(A, P)
    /\ Weight(A) = MstWeight(P)

\* C8: for a net of at least two pins the returned edge set is a tree that
\* spans the net's pins (n-1 edges for n distinct pins, connected) and its
\* total Manhattan weight is that of a minimum spanning tree; the four
\* corners of the 10x10 square give three edges of total weight 30.
MstIsTree ==
    MstReturned =>
        /\ IsMinimumSpanningTree(ret.A, PinSet)
        /\ PinSet = {<<0, 0, 0>>, <<0, 0, 10>>, <<0, 10, 0>>, <<0, 10, 10>>}
              => Cardinality(ret.A) = 3 /\ Weight(ret.A) = 30

\* The property of C8 on the nets whose pins lie at pairwise distinct
\* coordinates, where minimum_spanning_tree does return such a tree.
MstIsTreeOnDistinctPins ==
    (MstReturned /\ Cardinality(PinSet) = Len(args.pin_list)) =>
        /\ IsMinimumSpanningTree(ret.A, PinSet)
        /\ PinSet = {<<0, 0, 0>>, <<0, 0, 10>>, <<0, 10, 0>>, <<0, 10, 10>>}
              => Cardinality(ret.A) = 3 /\ Weight(ret.A) = 30


(***************************************************************************)
(* Specification of the placer                                             *)
(***************************************************************************)

\* The greatest number of cells of a netlist or of a placement.
MaxCells == 2

\* The cell instances of a netlist: a cell name and its pin-to-net mapping.
BlifCells ==
    {[name |-> "AND", pins |-> [A |-> "a", B |-> "b", Y |-> "n"]],
     [name |-> "NOT", pins |-> [A |-> "n", Y |-> "y"]],
     [name |-> "NOT", pins |-> [A |-> "y", Y |-> "z"]]}

\* The dimensions a caller supplies: none, triples, and a pair.
DimensionChoices ==
    {[given |-> FALSE, value |-> <<>>]}
    \cup [given : {TRUE}, value : {<<1, 1, 1>>, <<1, 2, 4>>, <<2, 8, 8>>, <<8, 8>>}]

\* The grid of compute_occupied_locations and the anchors placements are
\* drawn from.
OccupiedDimensions == <<1, 3, 4>>

OccupiedAnchors == Voxels(<<1, 2, 2>>)

PlacementEntries ==
    [name : {"AND", "NOT"}, placement : OccupiedAnchors, turns : 0..3,
     pins : {<<>>}]

InitPlacer ==
    /\ pc = "call"
    /\ ret = NoResult
    /\ \/ /\ op = "initial_placement"
          /\ args \in [blif_cells : {<<>>} \cup SeqsUpTo(BlifCells, MaxCells),
                       dimensions : DimensionChoices]
       \/ /\ op = "compute_occupied_locations"
          /\ args \in [placements : {<<>>} \cup SeqsUpTo(PlacementEntries, MaxCells),
                       dimensions : {OccupiedDimensions}]

InitialPlacementCall ==
    /\ op = "initial_placement"
    /\ pc = "call"
    /\ ret' = initial_placement(args.blif_cells, args.dimensions)
    /\ pc' = IF ret'.raised = "" THEN "return" ELSE "raise"
    /\ UNCHANGED <<op, args>>

\* A write outside the grid raises IndexError (the anchors are not negative).
ComputeOccupiedCall ==
    /\ op = "compute_occupied_locations"
    /\ pc = "call"
    /\ IF \A i \in 1..Len(args.placements) :
              Stamp(args.placements[i]) \subseteq Voxels(args.dimensions)
       THEN /\ ret' = [grid |-> compute_occupied_locations(args.placements,
                                                           args.dimensions)]
            /\ pc' = "return"
       ELSE /\ ret' = [raised |-> "IndexError"]
            /\ pc' = "raise"
    /\ UNCHANGED <<op, args>>

NextPlacer == InitialPlacementCall \/ ComputeOccupiedCall

SpecPlacer == InitPlacer /\ [][NextPlacer]_vars

OccupiedReturned == op = "compute_occupied_locations" /\ pc = "return"

RECURSIVE SumOver(_, _)
\* The sum of f over the set S of its arguments.
SumOver(f, S) ==
    IF S = {} THEN 0
    ELSE LET v == CHOOSE w \in S : TRUE IN f[v] + SumOver(f, S \ {v})

\* The number of non-empty voxels of a cell, and the number of its voxels.
NonEmptyCount(cell) ==
    Cardinality({c \in Voxels(cell.shape) : cell.blocks[c] # 0})

VoxelCount(cell) == Cardinality(Voxels(cell.shape))

\* C9 as stated: the sum of the occupancy grid is the number of non-empty
\* voxels of the placed cells' block grids.
OccupancyCountsNonEmpty ==
    OccupiedReturned =>
        SumOver(ret.grid, Voxels(args.dimensions))
            = SumSeq([i \in 1..Len(args.placements) |->
                         NonEmptyCount(PlacedCell(args.placements[i]))])

\* C9 amended: the sum of the occupancy grid is the number of voxels, empty
\* or not, of the placed cells' block grids.
OccupancyCountsVoxels ==
    OccupiedReturned =>
        SumOver(ret.grid, Voxels(args.dimensions))
            = SumSeq([i \in 1..Len(args.placements) |->
                         VoxelCount(PlacedCell(args.placements[i]))])

\* C9 witness: two cells placed over one another, one of them with an empty
\* voxel in its block grid.
OccupancyOverlap ==
    /\ OccupiedReturned
    /\ \E v \in Voxels(args.dimensions) : ret.grid[v] = 2
    /\ \E i \in 1..Len(args.placements) :
           NonEmptyCount(PlacedCell(args.placements[i]))
               < VoxelCount(PlacedCell(args.placements[i]))

PlacementReturned == op = "initial_placement" /\ pc = "return"

\* Entry i of the placement is instance i of the netlist.
EntriesMatchNetlist ==
    /\ Len(ret.placements) = Len(args.blif_cells)
    /\ \A i \in 1..Len(args.blif_cells) :
          /\ ret.placements[i].name = args.blif_cells[i].name
          /\ ret.placements[i].pins = args.blif_cells[i].pins

AnchorsInside ==
    \A i \in 1..Len(ret.placements) :
        in_bounds(ret.placements[i].placement, ret.dimensions)

\* C10 as stated: with dimensions estimated or supplied as a 3-tuple, the
\* placement has the netlist's length, entry i is instance i, and every anchor
\* lies within the returned dimensions.
PlacementInsideDimensions ==
    PlacementReturned => EntriesMatchNetlist /\ AnchorsInside

\* C10 amended: the placement has the netlist's length and entry i is
\* instance i; when the dimensions are estimated every anchor lies within
\* them (with supplied dimensions the anchors are laid out the same way,
\* whatever the dimensions are).
PlacementInsideEstimate ==
    PlacementReturned =>
        /\ EntriesMatchNetlist
        /\ ~args.dimensions.given => AnchorsInside

\* C10 witness: a netlist of at least two cells placed with estimated
\* dimensions.
PlacementEstimated ==
    /\ PlacementReturned
    /\ ~args.dimensions.given
    /\ Len(ret.placements) >= 2

(***************************************************************************)
(* Specification: Router.re_route on small routings                        *)
(*                                                                         *)
(* args is [initial_routing, placed_layout, shape], placed_layout the set  *)
(* of non-empty voxels of a grid of that shape.  While the loop runs, ret  *)
(* holds re_route's local variables; rip_up is the part of the sorted      *)
(* rip-up list the for loop has not taken yet.                             *)
(***************************************************************************)

MaxIterations == 2

RerouteShape == <<2, 4, 3>>

\* Pin pairs: two parallel rows of the upper layer, two neighbouring pins,
\* and a pair whose pins lie on different layers.
ReroutePins ==
    {<< <<1, 1, 0>>, <<1, 1, 2>> >>,
     << <<1, 2, 0>>, <<1, 2, 2>> >>,
     << <<1, 1, 0>>, <<1, 2, 0>> >>,
     << <<0, 0, 0>>, <<1, 2, 2>> >>}

RerouteSegments ==
    {InitialSegment(p[1], p[2], RerouteShape) : p \in ReroutePins}

\* Two nets of one segment, one net of two segments, one net of one segment.
RerouteRoutings ==
    {<< <<s>>, <<t>> >> : s \in RerouteSegments, t \in RerouteSegments}
    \cup {<< <<s, t>> >> : s \in RerouteSegments, t \in RerouteSegments}
    \cup {<< <<s>> >> : s \in RerouteSegments}

RerouteLayouts == {{}} \cup {{v} : v \in {<<1, 3, 1>>, <<1, 2, 1>>, <<0, 1, 1>>}}

InitReroute ==
    /\ op = "re_route"
    /\ pc = "call"
    /\ ret = NoResult
    /\ args \in [initial_routing : RerouteRoutings,
                 placed_layout : RerouteLayouts,
                 shape : {RerouteShape}]

\* sum(sum(net_violations.itervalues(), []))
SumViolations(net_num_violations) ==
    SumOver([id \in DOMAIN net_num_violations |-> net_num_violations[id]],
            DOMAIN net_num_violations)

\* Lines 424-432: the usage matrix and the score of the initial routing,
\* iterations = 0, routing = deepcopy(initial_routing).
ReRouteEnter ==
    /\ op = "re_route"
    /\ pc = "call"
    /\ LET usage_matrix == generate_usage_matrix(args.placed_layout,
                                                 args.initial_routing, {})
           scored == score_routing(args.initial_routing, usage_matrix)
       IN  ret' = [routing |-> args.initial_routing,
                   usage_matrix |-> usage_matrix,
                   net_scores |-> scored.net_scores,
                   num_violations |-> SumViolations(scored.net_num_violations),
                   iterations |-> 0,
                   rip_up |-> <<>>,
                   normalized_scores |-> <<>>]
    /\ pc' = "while"
    /\ UNCHANGED <<op, args>>

\* Line 434, condition false: return routing (line 467).
ReRouteExit ==
    /\ op = "re_route"
    /\ pc = "while"
    /\ ~(ret.num_violations > 0)
    /\ pc' = "return"
    /\ UNCHANGED <<op, args, ret>>

\* Lines 434-447, condition true: normalize the scores, select the segments
\* to rip up, build the usage matrix without them and sort them.
ReRouteSelect ==
    /\ op = "re_route"
    /\ pc = "while"
    /\ ret.num_violations > 0
    /\ ret.iterations < MaxIterations
    /\ LET normalized_scores == normalize_net_scores(ret.net_scores)
       IN  \E rip_up \in natural_selection(normalized_scores) :
             \E sorted \in SortedRipUps(rip_up, normalized_scores) :
                ret' = [ret EXCEPT
                          !.normalized_scores = normalized_scores,
                          !.usage_matrix =
                              generate_usage_matrix(args.placed_layout,
                                                    ret.routing, rip_up),
                          !.rip_up = sorted]
    /\ pc' = "for"
    /\ UNCHANGED <<op, args>>

\* Lines 447-450: the next segment of the rip-up list gets maze_route's
\* result as its net.
ReRouteMaze ==
    /\ op = "re_route"
    /\ pc = "for"
    /\ Len(ret.rip_up) > 0
    /\ LET id == ret.rip_up[1]
           pins == ret.routing[id[1]][id[2]].pins
           new_net == maze_route(pins[1], pins[2], args.shape, ret.usage_matrix)
       IN  ret' = [ret EXCEPT !.routing[id[1]][id[2]].net = new_net]
    /\ pc' = "wire"
    /\ UNCHANGED <<op, args>>

\* Lines 452-457 for a net that is a path: the segment's wire and violation
\* grids are rebuilt and the wire is added to the usage matrix.
ReRouteWire ==
    /\ op = "re_route"
    /\ pc = "wire"
    /\ LET id == ret.rip_up[1]
           segment == ret.routing[id[1]][id[2]]
       IN  /\ segment.net # None
           /\ LET wv == net_to_wire_and_violation(segment.net, args.shape,
                                                  segment.pins)
              IN  ret' = [ret EXCEPT
                            !.routing[id[1]][id[2]].wire = wv.wire,
                            !.routing[id[1]][id[2]].violation = wv.violation,
                            !.usage_matrix = @ \cup WireVoxels(wv.wire),
                            !.rip_up = Tail(@)]
    /\ pc' = "for"
    /\ UNCHANGED <<op, args>>

\* Line 452 for the net None: net_to_wire_and_violation iterates over None,
\* which raises TypeError; re_route catches KeyboardInterrupt only.
ReRouteTypeError ==
    /\ op = "re_route"
    /\ pc = "wire"
    /\ LET id == ret.rip_up[1]
       IN  ret.routing[id[1]][id[2]].net = None
    /\ pc' = "raise"
    /\ UNCHANGED <<op, args, ret>>

\* Lines 459-462: after the for loop the routing is scored again.
ReRouteRescore ==
    /\ op = "re_route"
    /\ pc = "for"
    /\ Len(ret.rip_up) = 0
    /\ LET scored == score_routing(ret.routing, ret.usage_matrix)
       IN  ret' = [ret EXCEPT
                     !.net_scores = scored.net_scores,
                     !.num_violations = SumViolations(scored.net_num_violations),
                     !.iterations = @ + 1]
    /\ pc' = "while"
    /\ UNCHANGED <<op, args>>

\* Lines 464-467: a KeyboardInterrupt anywhere in the loop ends it and
\* re_route returns the routing as it is.
ReRouteInterrupt ==
    /\ op = "re_route"
    /\ pc \in {"while", "for", "wire"}
    /\ pc' = "return"
    /\ UNCHANGED <<op, args, ret>>

NextReroute ==
    \/ ReRouteEnter
    \/ ReRouteExit
    \/ ReRouteSelect
    \/ ReRouteMaze
    \/ ReRouteWire
    \/ ReRouteTypeError
    \/ ReRouteRescore
    \/ ReRouteInterrupt

SpecReroute == InitReroute /\ [][NextReroute]_vars

\* The violations of a routing counted from its grids: for every segment the
\* voxels of its violation grid that the layout or any wire occupies.
TotalViolations(routing, placed_layout) ==
    LET occupied ==
            placed_layout
            \cup {v \in Voxels(RerouteShape) :
                    \E id \in SegmentIds(routing) :
                        routing[id[1]][id[2]].wire[v] # 0}
    IN  SumOver([id \in SegmentIds(routing) |->
                    Cardinality({v \in routing[id[1]][id[2]].violation :
                                    v \in occupied})],
                SegmentIds(routing))

\* The segment the for loop is at has no path between its pins.
AtUnroutable ==
    /\ op = "re_route"
    /\ pc \in {"for", "wire"}
    /\ Len(ret.rip_up) > 0
    /\ LET id == ret.rip_up[1]
           pins == ret.routing[id[1]][id[2]].pins
       IN  maze_route(pins[1], pins[2], args.shape, ret.usage_matrix) = None

\* C4: when maze_route finds no path for a segment, the segment keeps its
\* path and grids and re_route goes on to the remaining segments instead of
\* failing.
UnroutableKeepsPath ==
    [][AtUnroutable =>
          /\ pc' # "raise"
          /\ LET id == ret.rip_up[1]
             IN  ret'.routing[id[1]][id[2]] = ret.routing[id[1]][id[2]]]_vars

\* C5: when the routing has no violation at the head of the loop, re_route
\* leaves the loop there and returns the routing it has, re-routing nothing;
\* with no violation in the initial routing that is a copy of the initial
\* routing, returned after zero iterations.
ZeroViolationsExit ==
    [][(op = "re_route" /\ pc = "while"
          /\ TotalViolations(ret.routing, args.placed_layout) = 0) =>
          /\ pc' = "return"
          /\ ret' = ret
          /\ (TotalViolations(args.initial_routing, args.placed_layout) = 0 =>
                /\ ret.iterations = 0
                /\ ret.routing = args.initial_routing)]_vars

\* Witness of C5: re_route has returned a routing without violations after
\* re-routing segments of an initial routing that had violations.
RerouteCleared ==
    /\ op = "re_route"
    /\ pc = "return"
    /\ ret.iterations >= 1
    /\ ret.rip_up = <<>>
    /\ TotalViolations(args.initial_routing, args.placed_layout) > 0
    /\ TotalViolations(ret.routing, args.placed_layout) = 0

\* A second witness of C5: an initial routing of two segments without
\* violations has been returned after zero iterations.
RerouteUntouched ==
    /\ op = "re_route"
    /\ pc = "return"
    /\ ret.iterations = 0
    /\ Cardinality(SegmentIds(args.initial_routing)) = 2
    /\ TotalViolations(args.initial_routing, args.placed_layout) = 0
    /\ ret.routing = args.initial_routing

\* The scores normalize_net_scores was called on take two values or more.
ScoresDiffer ==
    /\ op = "re_route"
    /\ pc \in {"for", "wire"}
    /\ \E id1, id2 \in DOMAIN ret.net_scores :
          ret.net_scores[id1] # ret.net_scores[id2]

\* C13: when the scores take two values or more, every normalized score lies
\* in [0.1, 0.9], the least score is mapped to 0.1 and the greatest to 0.9
\* (a normalized score is the fraction n[1] / n[2], n[2] > 0).
NormalizedInMargins ==
    ScoresDiffer =>
        LET scores == {ret.net_scores[id] : id \in DOMAIN ret.net_scores}
        IN  \A id \in DOMAIN ret.normalized_scores :
              LET n == ret.normalized_scores[id]
              IN  /\ n[2] <= 10 * n[1]
                  /\ 10 * n[1] <= 9 * n[2]
                  /\ ret.net_scores[id] = Min(scores) => 10 * n[1] = n[2]
                  /\ ret.net_scores[id] = Max(scores) => 10 * n[1] = 9 * n[2]

\* What the code does: the scores are scaled by 0.8 / (max - min) and moved
\* up by 0.1 without taking the least score off first, so the normalized
\* scores are 0.8 apart at the ends and lie above 0.1 by 0.8 * min / (max -
\* min), which is positive for the scores score_routing gives to segments
\* with a path.
NormalizedShifted ==
    ScoresDiffer =>
        LET scores == {ret.net_scores[id] : id \in DOMAIN ret.net_scores}
            range == Max(scores) - Min(scores)
        IN  \A id \in DOMAIN ret.normalized_scores :
              LET n == ret.normalized_scores[id]
              IN  /\ n[2] = 10 * range
                  /\ n[1] = range + 8 * ret.net_scores[id]
                  /\ ret.net_scores[id] > 0 => 10 * n[1] > n[2]

\* C15: in every routing re_route returns, after the loop ended without
\* violations or after a KeyboardInterrupt inside it, every segment has the
\* pins it had in the initial routing and the wire and violation grids that
\* net_to_wire_and_violation derives from its net.
ReturnedGridsMatchNets ==
    (op = "re_route" /\ pc = "return") =>
        /\ SegmentIds(ret.routing) = SegmentIds(args.initial_routing)
        /\ \A id \in SegmentIds(ret.routing) :
              LET segment == ret.routing[id[1]][id[2]]
              IN  /\ segment.pins = args.initial_routing[id[1]][id[2]].pins
                  /\ segment.net # None
                  /\ LET wv == net_to_wire_and_violation(segment.net, args.shape,
                                                         segment.pins)
                     IN  /\ segment.wire = wv.wire
                         /\ segment.violation = wv.violation

\* The same for the routings the loop hands back when it ends on its own:
\* the rip-up list is used up and the last score found no violation.
ClearedGridsMatchNets ==
    (op = "re_route" /\ pc = "return" /\ ret.rip_up = <<>>
        /\ ret.num_violations = 0) => ReturnedGridsMatchNets

\* A routing returned on a KeyboardInterrupt that fell between the assignment
\* of a segment's new net and the assignment of its grids.
InterruptedBetweenNetAndGrids ==
    /\ op = "re_route"
    /\ pc = "return"
    /\ Len(ret.rip_up) > 0
    /\ LET id == ret.rip_up[1]
           segment == ret.routing[id[1]][id[2]]
       IN  /\ segment.net # None
           /\ segment.wire # net_to_wire_and_violation(segment.net, args.shape,
                                                       segment.pins).wire

(***************************************************************************)
(* Specification: placer.generate                                          *)
(*                                                                         *)
(* args is [old_placements, method, displace_interchange_ratio].  While    *)
(* generate runs, ret holds its locals: new_placements, and cellA and      *)
(* cellB as positions in new_placements (the cells are compared by         *)
(* identity, and the entries of a placement are distinct objects).         *)
(***************************************************************************)

MaxPlaced == 2

GenerateEntries ==
    [name : {"AND", "NOT"}, placement : {<<0, 0, 0>>, <<0, 0, 3>>},
     turns : {0, 1}, pins : {<<>>}]

GenerateMethods == {"displace", "reorient", "interchange", "swap"}

\* The ratio 5 is the default; with the ratio 1 no draw is above 1 / ratio.
GenerateRatios == {1, 5}

InitGenerate ==
    /\ op = "generate"
    /\ pc = "call"
    /\ ret = NoResult
    /\ args \in [old_placements : {<<>>} \cup SeqsUpTo(GenerateEntries, MaxPlaced),
                 method : GenerateMethods,
                 displace_interchange_ratio : GenerateRatios]

\* The values random.random() > (1. / displace_interchange_ratio) can take
\* for a draw in [0, 1) and a positive ratio.
InterchangeDraws(displace_interchange_ratio) ==
    {FALSE} \cup (IF displace_interchange_ratio > 1 THEN {TRUE} ELSE {})

\* Lines 190-196 and 202-210: the copy, the choice of cellA (IndexError on an
\* empty placement), the draw of the branch and, in the displace branch, the
\* test of the method.
GenerateEnter ==
    /\ op = "generate"
    /\ pc = "call"
    /\ IF args.old_placements = <<>>
       THEN /\ ret' = [new_placements |-> <<>>, cellA |-> 0, cellB |-> 0,
                       raised |-> "IndexError"]
            /\ pc' = "raise"
       ELSE \E cellA \in 1..Len(args.old_placements),
               interchange \in InterchangeDraws(args.displace_interchange_ratio) :
              IF interchange
              THEN /\ ret' = [new_placements |-> args.old_placements,
                              cellA |-> cellA, cellB |-> cellA, raised |-> ""]
                   /\ pc' = "while"
              ELSE IF args.method = "displace" \/ args.method = "interchange"
                   THEN /\ ret' = [new_placements |-> args.old_placements,
                                   cellA |-> cellA, cellB |-> 0, raised |-> ""]
                        /\ pc' = "return"
                   ELSE /\ ret' = [new_placements |-> args.old_placements,
                                   cellA |-> cellA, cellB |-> 0,
                                   raised |-> "ValueError"]
                        /\ pc' = "raise"
    /\ UNCHANGED <<op, args>>

\* Lines 197-198: while cellB is cellA, cellB is drawn again.
GenerateDraw ==
    /\ op = "generate"
    /\ pc = "while"
    /\ ret.cellB = ret.cellA
    /\ \E cellB \in 1..Len(ret.new_placements) :
          ret' = [ret EXCEPT !.cellB = cellB]
    /\ UNCHANGED <<op, pc, args>>

\* Lines 200-201 and 210: the anchors of cellA and cellB are exchanged and
\* new_placements is returned.
GenerateSwap ==
    /\ op = "generate"
    /\ pc = "while"
    /\ ret.cellB # ret.cellA
    /\ ret' = [ret EXCEPT
                 !.new_placements[ret.cellA].placement =
                     ret.new_placements[ret.cellB].placement,
                 !.new_placements[ret.cellB].placement =
                     ret.new_placements[ret.cellA].placement]
    /\ pc' = "return"
    /\ UNCHANGED <<op, args>>

NextGenerate == GenerateEnter \/ GenerateDraw \/ GenerateSwap

SpecGenerate == InitGenerate /\ [][NextGenerate]_vars

\* random.choice draws every cell with a positive probability, so a draw that
\* changes cellB is not put off for ever.
SpecGenerateFair == SpecGenerate /\ WF_vars(NextGenerate)

GenerateDone == op = "generate" /\ pc \in {"return", "raise"}

\* C11: a call of generate on a non-empty placement fails with ValueError
\* exactly when its method is neither "displace" nor "reorient", whichever
\* branch the random draw takes.
InvalidMethodRaises ==
    (GenerateDone /\ args.old_placements # <<>>) =>
        ((pc = "raise" /\ ret.raised = "ValueError")
            <=> args.method \notin {"displace", "reorient"})

\* What the code does: ValueError is raised only in the displace branch, for
\* the methods other than "displace" and "interchange".
InvalidMethodInDisplaceBranch ==
    (GenerateDone /\ args.old_placements # <<>>) =>
        /\ (pc = "raise") => (ret.raised = "ValueError" /\ ret.cellB = 0
                                /\ args.method \notin {"displace", "interchange"})
        /\ (pc = "return" /\ ret.cellB = 0) =>
               args.method \in {"displace", "interchange"}

\* C14: generate terminates (returns or raises) on every non-empty placement,
\* whatever the random draws are.
GenerateTerminates ==
    <>(op = "generate" /\ args.old_placements # <<>> => pc \in {"return", "raise"})

\* generate terminates on the placements of two or more cells.
GenerateTerminatesOnTwo ==
    <>(op = "generate" /\ Len(args.old_placements) >= 2
          => pc \in {"return", "raise"})

\* Whenever generate returns, the result has the names, turns and pins of the
\* input in the same order and the anchors of the input, two of them
\* exchanged or none.
GeneratePreserves ==
    (op = "generate" /\ pc = "return") =>
        LET old == args.old_placements
            new == ret.new_placements
        IN  /\ Len(new) = Len(old)
            /\ \A i \in 1..Len(old) :
                  /\ new[i].name = old[i].name
                  /\ new[i].turns = old[i].turns
                  /\ new[i].pins = old[i].pins
            /\ \E i, j \in 1..Len(old) :
                  /\ new[i].placement = old[j].placement
                  /\ new[j].placement = old[i].placement
                  /\ \A k \in 1..Len(old) \ {i, j} :
                        new[k].placement = old[k].placement

(***************************************************************************)
(* Specification: placer.shrink_layout on small int8 grids                 *)
(***************************************************************************)

ShrinkShapes == {<<1, 1, 1>>, <<2, 1, 1>>, <<1, 1, 3>>, <<1, 2, 2>>, <<2, 2, 2>>}

\* The block ids of a voxel: air, stone, and an id above 127 as the int8
\* grid of create_layout holds it (152 is stored as -104).
ShrinkBlocks == {0, stone, -104}

InitShrink ==
    /\ op = "shrink_layout"
    /\ pc = "call"
    /\ ret = NoResult
    /\ \E shape \in ShrinkShapes :
          args \in [shape : {shape}, layout : [Voxels(shape) -> ShrinkBlocks]]

ShrinkLayoutCall ==
    /\ op = "shrink_layout"
    /\ pc = "call"
    /\ ret' = shrink_layout(args.layout, args.shape)
    /\ pc' = IF ret'.raised = "" THEN "return" ELSE "raise"
    /\ UNCHANGED <<op, args>>

NextShrink == ShrinkLayoutCall

SpecShrink == InitShrink /\ [][NextShrink]_vars

ShrinkDone == op = "shrink_layout" /\ pc \in {"return", "raise"}

\* The sub-grid of layout over the bounding box of the voxels in S.
BoxOf(layout, S) ==
    LET lo == [i \in 1..3 |-> Min({v[i] : v \in S})]
        hi == [i \in 1..3 |-> Max({v[i] : v \in S})]
        d == [i \in 1..3 |-> hi[i] - lo[i] + 1]
    IN  [shape |-> d, grid |-> [c \in Voxels(d) |-> layout[Move(lo, c)]]]

\* C12: on a grid of zeros shrink_layout returns an empty 0x0x0 grid and
\* raises nothing; on a grid with a non-zero voxel it returns the sub-grid of
\* the bounding box of the non-zero voxels.
ShrinkIsBoundingBox ==
    ShrinkDone =>
        LET nonzero == {v \in Voxels(args.shape) : args.layout[v] # 0}
        IN  /\ pc = "return"
            /\ IF nonzero = {}
               THEN ret.shape = <<0, 0, 0>>
               ELSE /\ ret.shape = BoxOf(args.layout, nonzero).shape
                    /\ ret.grid = BoxOf(args.layout, nonzero).grid

\* What the code does: with a voxel above 0 it returns the sub-grid of the
\* bounding box of the voxels above 0; with none it returns an empty grid of
\* shape 1 - H, 1 - D, 1 - W when the layout is 1x1x1 and raises ValueError
\* otherwise.
ShrinkIsPositiveBox ==
    ShrinkDone =>
        LET positive == {v \in Voxels(args.shape) : args.layout[v] > 0}
        IN  IF positive = {}
            THEN IF args.shape = <<1, 1, 1>>
                 THEN pc = "return" /\ ret.shape = <<0, 0, 0>>
                 ELSE pc = "raise" /\ ret.raised = "ValueError"
            ELSE /\ pc = "return"
                 /\ ret.shape = BoxOf(args.layout, positive).shape
                 /\ ret.grid = BoxOf(args.layout, positive).grid

=============================================================================
